---- MODULE Spec2Model ----
(***************************************************************************)
(* Model of whisperwave's audio core:                                      *)
(*   src/lib/audio-processor.ts   processAudio, applyLMSFilter,            *)
(*                                applyPostProcessing                      *)
(*   src/unnamed/part_000         NoiseClassifier (extractFeatures,        *)
(*                                simulateModelPrediction, classifyNoise)  *)
(*                                                                         *)
(* NUMBERS.  The code computes in IEEE-754: JavaScript numbers (double)    *)
(* for the locals y, prevOutput, error, sum, maxAmplitude, scaleFactor and *)
(* Float32Array elements for weights, buffer, the signals.  A number is    *)
(* modelled as a pair <<n, d>>:                                            *)
(*   d > 0   the finite value n/d, in lowest terms;                        *)
(*   <<1,0>> +Infinity,  <<-1,0>> -Infinity,  <<0,0>> NaN.                 *)
(* Arithmetic on locals (doubles) is exact rational arithmetic with the    *)
(* IEEE rules for the special values.  A store into a Float32Array (F32)   *)
(* rounds to the nearest point of a grid of Unit steps per 1.0, ties to    *)
(* even, and overflows to +-Infinity beyond MaxFinite: the float32 format  *)
(* scaled down to what can be enumerated (a uniform grid instead of a      *)
(* floating one, a small largest value instead of 3.4e38).  Signed zero is *)
(* not distinguished.                                                      *)
(***************************************************************************)
EXTENDS Integers, Sequences, FiniteSets, TLC

\* ------------------------------------------------------------------ bounds

\* Grid steps per 0.1 of the scaled-down float32 format.
Precision == 2

\* Largest finite value of the scaled-down float32 format.
MaxFinite == 8

\* Longest signal handed to applyPostProcessing on its own.
MaxPostLen == 8

Unit == 10 * Precision

\* ----------------------------------------------------------------- numbers

Abs(i) == IF i < 0 THEN -i ELSE i

Sgn(i) == IF i < 0 THEN -1 ELSE IF i > 0 THEN 1 ELSE 0

RECURSIVE GCD(_, _)
GCD(a, b) == IF b = 0 THEN a ELSE GCD(b, a % b)

\* n/d in lowest terms; d = 0 gives the special value of n's sign.
Norm(n, d) ==
    IF d = 0 THEN <<Sgn(n), 0>>
    ELSE LET s == IF d < 0 THEN -1 ELSE 1
             g == GCD(Abs(n), Abs(d))
         IN  <<(s * n) \div g, (s * d) \div g>>

Zero == <<0, 1>>
PInf == <<1, 0>>
NInf == <<-1, 0>>
NaN == <<0, 0>>

Num(n) == <<n, 1>>

IsNaN(a) == a = NaN

IsFinite(a) == a[2] # 0

\* a * b on doubles: Infinity * 0 = NaN falls out of the representation.
FMul(a, b) == Norm(a[1] * b[1], a[2] * b[2])

FNeg(a) == <<-a[1], a[2]>>

\* a + b on doubles: Infinity + -Infinity = NaN, NaN is absorbing.
FAdd(a, b) ==
    IF a[2] = 0 /\ b[2] = 0 THEN (IF a = b THEN a ELSE NaN)
    ELSE IF a[2] = 0 THEN a
    ELSE IF b[2] = 0 THEN b
    ELSE LET g == GCD(a[2], b[2])
         IN  Norm(a[1] * (b[2] \div g) + b[1] * (a[2] \div g), a[2] * (b[2] \div g))

FSub(a, b) == FAdd(a, FNeg(b))

\* a / b on doubles: x / 0 = +-Infinity, 0 / 0 = NaN, x / Infinity = 0.
FDiv(a, b) == FMul(a, Norm(Sgn(b[1]) * b[2], Abs(b[1])))

\* Math.abs
MathAbs(a) == <<Abs(a[1]), a[2]>>

\* a > b: false as soon as one side is NaN.
FGt(a, b) ==
    IF IsNaN(a) \/ IsNaN(b) THEN FALSE
    ELSE IF a[2] = 0 /\ b[2] = 0 THEN a[1] > b[1]
    ELSE a[1] * b[2] > b[1] * a[2]

FLt(a, b) == FGt(b, a)

FGe(a, b) == ~IsNaN(a) /\ ~IsNaN(b) /\ ~FGt(b, a)

\* Math.max(a, b): NaN as soon as one argument is NaN.
MathMax(a, b) == IF IsNaN(a) \/ IsNaN(b) THEN NaN ELSE IF FGt(b, a) THEN b ELSE a

\* Math.min(a, b)
MathMin(a, b) == IF IsNaN(a) \/ IsNaN(b) THEN NaN ELSE IF FGt(a, b) THEN b ELSE a

\* The integer nearest to n/d (d > 0), ties to the even one.
RoundDiv(n, d) ==
    LET q == n \div d
        r == n - q * d
    IN  IF 2 * r < d THEN q
        ELSE IF 2 * r > d THEN q + 1
        ELSE IF q % 2 = 0 THEN q ELSE q + 1

\* The value a Float32Array element holds after `element = a`.
F32(a) ==
    IF a[2] = 0 THEN a
    ELSE LET c == GCD(Unit, a[2])
             g == RoundDiv(a[1] * (Unit \div c), a[2] \div c)
         IN  IF g > MaxFinite * Unit THEN PInf
             ELSE IF g < -(MaxFinite * Unit) THEN NInf
             ELSE Norm(g, Unit)

\* new Float32Array(len): len zeros, indexed from 0 as in the code.
ZeroArray(len) == [i \in 0..(len - 1) |-> Zero]

\* A Seq of numbers as a 0-based array.
ArrayOf(s) == [i \in 0..(Len(s) - 1) |-> s[i + 1]]

ALen(a) == Cardinality(DOMAIN a)

\* --------------------------------------------------------------- variables

VARIABLES
    pc,              \* control position of the operation being run
    \* processAudio (audio-processor.ts 7-55)
    originalBuffer, processedBuffer, noiseType, channel, result,
    \* applyLMSFilter (audio-processor.ts 59-110)
    inputSignal, outputSignal, stepSize, filterLength,
    weights, buffer, prevOutput, n, y, error, calls,
    \* applyPostProcessing (audio-processor.ts 113-144)
    signal, temp, i, maxAmplitude,
    \* classifyNoise (part_000 109-139)
    features, scores, typeIndex, highestScore, detectedType, classified,
    \* NoiseCancellationApp (part_002 19-206) and the NoiseClassifier effects
    \* it mounts (part_000 26-107)
    originalAudio, processedAudio, isProcessing, noiseTypeState,
    runs, stage, inFlight, loads, clicks, classifiedFrom,
    \* playAudio / stopAudio (part_002 23, 30-31, 152-206)
    isPlaying, originalSourceRef, processedSourceRef, sources

procVars == <<originalBuffer, processedBuffer, noiseType, channel, result>>

lmsVars == <<inputSignal, outputSignal, stepSize, filterLength,
             weights, buffer, prevOutput, n, y, error, calls>>

postVars == <<signal, temp, i, maxAmplitude>>

clsVars == <<features, scores, typeIndex, highestScore, detectedType, classified>>

playVars == <<isPlaying, originalSourceRef, processedSourceRef, sources>>

appVars == <<originalAudio, processedAudio, isProcessing, noiseTypeState,
             runs, stage, inFlight, loads, clicks, classifiedFrom, playVars>>

vars == <<pc, procVars, lmsVars, postVars, clsVars, appVars>>

\* The value of a variable the running operation does not have.
None == <<>>

LmsIdle ==
    /\ inputSignal = None /\ outputSignal = None
    /\ stepSize = None /\ filterLength = 0
    /\ weights = None /\ buffer = None /\ prevOutput = None
    /\ n = 0 /\ y = None /\ error = None /\ calls = 0

PostIdle == signal = None /\ temp = None /\ i = 0 /\ maxAmplitude = None

ProcIdle ==
    /\ originalBuffer = None /\ processedBuffer = None
    /\ noiseType = None /\ channel = 0 /\ result = None

ClsIdle ==
    /\ features = None /\ scores = None /\ typeIndex = 0
    /\ highestScore = None /\ detectedType = None /\ classified = None

\* Nothing is played (part_002 lines 23, 30-31): both flags false, both
\* refs null, no source created.
PlayIdle ==
    /\ isPlaying = [original |-> FALSE, processed |-> FALSE]
    /\ originalSourceRef = None /\ processedSourceRef = None
    /\ sources = <<>>

\* The page before any audio is loaded (part_002 lines 20-24): no audio, no
\* label, nothing being processed, no classifier mounted.
AppIdle ==
    /\ originalAudio = None /\ processedAudio = None
    /\ isProcessing = FALSE /\ noiseTypeState = None
    /\ runs = <<>> /\ stage = "unmounted" /\ inFlight = <<>>
    /\ loads = 0 /\ clicks = 0 /\ classifiedFrom = None
    /\ PlayIdle

\* ------------------------------------------------------ applyPostProcessing

\* const windowSize = 3
windowSize == 3

\* The clipping threshold 0.9 of the normalization step.
ClipLevel == Norm(9, 10)

\* let sum = 0; for (j = -windowSize..windowSize) sum += temp[i + j]
RECURSIVE WindowSum(_, _, _, _)
WindowSum(t, idx, j, sum) ==
    IF j > windowSize THEN sum
    ELSE WindowSum(t, idx, j + 1, FAdd(sum, t[idx + j]))

\* Mutant of AverageAt: the window is read from the signal being written
\* instead of the copy.
AverageAtInPlace(sig, t, idx) ==
    [sig EXCEPT ![idx] = F32(FDiv(WindowSum(sig, idx, -windowSize, Zero), Num(2 * windowSize + 1)))]

\* Mutant of AverageAt: the samples below idx are read as already smoothed.
AverageAtOverwritten(sig, t, idx) ==
    [sig EXCEPT ![idx] =
        F32(FDiv(WindowSum([k \in DOMAIN t |-> IF k < idx THEN sig[k] ELSE t[k]],
                           idx, -windowSize, Zero),
                 Num(2 * windowSize + 1)))]

\* signal[i] = sum / (2 * windowSize + 1)
AverageAt(sig, t, idx) ==
    [sig EXCEPT ![idx] = F32(FDiv(WindowSum(t, idx, -windowSize, Zero), Num(2 * windowSize + 1)))]

\* for (i = idx; i < signal.length - windowSize; i++) signal[i] = average of temp
RECURSIVE MovingAverage(_, _, _)
MovingAverage(sig, t, idx) ==
    IF idx < ALen(sig) - windowSize
    THEN MovingAverage(AverageAt(sig, t, idx), t, idx + 1)
    ELSE sig

\* for (i = idx..) maxAmplitude = Math.max(maxAmplitude, Math.abs(signal[i]))
RECURSIVE PeakFrom(_, _, _)
PeakFrom(sig, idx, m) ==
    IF idx < ALen(sig) THEN PeakFrom(sig, idx + 1, MathMax(m, MathAbs(sig[idx]))) ELSE m

\* Mutant of Normalize: the scaling is applied whatever the peak is.
NormalizeAlways(sig, m) ==
    LET scaleFactor == FDiv(ClipLevel, m)
    IN  [k \in DOMAIN sig |-> F32(FMul(sig[k], scaleFactor))]

\* if (maxAmplitude > 0.9) every signal[i] *= 0.9 / maxAmplitude
Normalize(sig, m) ==
    IF FGt(m, ClipLevel)
    THEN LET scaleFactor == FDiv(ClipLevel, m)
         IN  [k \in DOMAIN sig |-> F32(FMul(sig[k], scaleFactor))]
    ELSE sig

\* The array `signal` holds when applyPostProcessing(signal) returns.
applyPostProcessing(sig) ==
    LET smoothed == MovingAverage(sig, sig, windowSize)
    IN  Normalize(smoothed, PeakFrom(smoothed, 0, Zero))

\* Inputs of the post-processor: what applyLMSFilter can have written to
\* outputSignal.  Finite samples at every length up to MaxPostLen; the
\* non-finite values a diverged filter writes at the short lengths.
PostFinite == {Num(-2), Zero, Norm(1, 2)}

PostSpecial == {Num(-2), Norm(9, 10), Norm(1, 2), PInf, NaN}

PostSpecialLen == 3

PostSignals ==
    UNION {[0..(l - 1) -> PostFinite] : l \in 0..MaxPostLen}
    \cup UNION {[0..(l - 1) -> PostSpecial] : l \in 1..PostSpecialLen}

PostInit ==
    /\ pc = "post_copy"
    /\ signal \in PostSignals
    /\ temp = None /\ i = 0 /\ maxAmplitude = None
    /\ LmsIdle /\ ProcIdle /\ ClsIdle
    /\ AppIdle

\* lines 115-121: temp = copy of signal
PostCopy ==
    /\ pc = "post_copy"
    /\ temp' = signal
    /\ i' = windowSize
    /\ pc' = "post_average"
    /\ UNCHANGED <<signal, maxAmplitude, lmsVars, procVars, clsVars>>
    /\ UNCHANGED appVars

\* lines 124-130: one iteration of the moving-average loop
PostAverage ==
    /\ pc = "post_average"
    /\ i < ALen(signal) - windowSize
    /\ signal' = AverageAt(signal, temp, i)
    /\ i' = i + 1
    /\ UNCHANGED <<pc, temp, maxAmplitude, lmsVars, procVars, clsVars>>
    /\ UNCHANGED appVars

\* lines 133-136: the loop exits; the peak of the smoothed signal
PostPeak ==
    /\ pc = "post_average"
    /\ ~(i < ALen(signal) - windowSize)
    /\ maxAmplitude' = PeakFrom(signal, 0, Zero)
    /\ pc' = "post_scale"
    /\ UNCHANGED <<signal, temp, i, lmsVars, procVars, clsVars>>
    /\ UNCHANGED appVars

\* lines 138-143: scale when the peak exceeds 0.9, then return
PostScale ==
    /\ pc = "post_scale"
    /\ signal' = Normalize(signal, maxAmplitude)
    /\ pc' = "post_done"
    /\ UNCHANGED <<temp, i, maxAmplitude, lmsVars, procVars, clsVars>>
    /\ UNCHANGED appVars

PostNext == PostCopy \/ PostAverage \/ PostPeak \/ PostScale

SpecPost == PostInit /\ [][PostNext]_vars

\* ----------------------------------------------------------- applyLMSFilter

\* lines 77-80: shift the delay line right by one, insert x at index 0
ShiftIn(buf, x) == [k \in DOMAIN buf |-> IF k = 0 THEN x ELSE buf[k - 1]]

\* lines 83-88: y = sum of weights[k] * buffer[k] over the taps k = lo..hi
\* with n - k >= 0.  The terms are added in index order; the range is halved
\* only to bound the depth of the evaluation (the sum is exact), and a range
\* of taps that all fail n - k >= 0 adds nothing.
RECURSIVE FilterOutput(_, _, _, _, _)
FilterOutput(w, buf, idx, lo, hi) ==
    IF lo > hi \/ idx - lo < 0 THEN Zero
    ELSE IF lo = hi THEN (IF idx - lo >= 0 THEN FMul(w[lo], buf[lo]) ELSE Zero)
    ELSE LET mid == (lo + hi) \div 2
         IN  FAdd(FilterOutput(w, buf, idx, lo, mid), FilterOutput(w, buf, idx, mid + 1, hi))

\* Mutant of UpdateWeights: the step size is left out of the update.
UpdateWeightsNoStep(w, buf, mu, e, idx) ==
    [k \in DOMAIN w |->
        IF idx - k >= 0 THEN F32(FSub(w[k], FMul(e, buf[k]))) ELSE w[k]]

\* lines 98-102: weights[k] = weights[k] - stepSize * error * buffer[k]
\* for the taps with n - k >= 0
UpdateWeights(w, buf, mu, e, idx) ==
    [k \in DOMAIN w |->
        IF idx - k >= 0 THEN F32(FSub(w[k], FMul(FMul(mu, e), buf[k]))) ELSE w[k]]

\* Mutant of LmsFresh: the filter state is kept from the previous call
\* (module-level arrays reused) instead of being allocated per call.
LmsFreshKept(L) ==
    IF calls > 0 /\ filterLength = L
    THEN [weights |-> weights, buffer |-> buffer, prevOutput |-> prevOutput]
    ELSE [weights |-> ZeroArray(L), buffer |-> ZeroArray(L), prevOutput |-> Zero]

\* lines 66-72: the filter state a call of applyLMSFilter starts from
LmsFresh(L) == [weights |-> ZeroArray(L), buffer |-> ZeroArray(L), prevOutput |-> Zero]

\* Mutant of LmsIteration: the textbook error d(n) - y(n), the current
\* filter output subtracted from the input.
LmsIterationTextbook(st, x, mu, idx) ==
    LET buf == ShiftIn(st.buffer, x)
        yy  == FilterOutput(st.weights, buf, idx, 0, ALen(st.weights) - 1)
        e   == FSub(x, yy)
    IN  [weights    |-> UpdateWeights(st.weights, buf, mu, e, idx),
         buffer     |-> buf,
         prevOutput |-> yy,
         y          |-> yy,
         error      |-> e]

\* lines 76-105: the body of the sample loop at index idx, on the filter
\* state st = [weights, buffer, prevOutput]; also yields the y and error of
\* the iteration
LmsIteration(st, x, mu, idx) ==
    LET buf == ShiftIn(st.buffer, x)
        yy  == FilterOutput(st.weights, buf, idx, 0, ALen(st.weights) - 1)
        e   == FAdd(x, st.prevOutput)
    IN  [weights    |-> UpdateWeights(st.weights, buf, mu, e, idx),
         buffer     |-> buf,
         prevOutput |-> yy,
         y          |-> yy,
         error      |-> e]

\* lines 75-106 from index idx on: the outputSignal the loop leaves
RECURSIVE LmsLoop(_, _, _, _, _)
LmsLoop(st, inp, out, mu, idx) ==
    IF idx < ALen(inp)
    THEN LET nx == LmsIteration(st, inp[idx], mu, idx)
         IN  LmsLoop(nx, inp, [out EXCEPT ![idx] = F32(nx.error)], mu, idx + 1)
    ELSE out

\* The array outputSignal holds when applyLMSFilter(inputSignal,
\* outputSignal, stepSize, filterLength) returns.
applyLMSFilter(inp, out, mu, L) ==
    applyPostProcessing(LmsLoop(LmsFresh(L), inp, out, mu, 0))

\* The label -> (stepSize, filterLength) rows of processAudio's switch.
RowLawnmower == <<Norm(1, 100), 32>>
RowTraffic == <<Norm(5, 1000), 128>>
RowConstruction == <<Norm(8, 1000), 64>>
RowFanHvac == <<Norm(3, 1000), 256>>
RowDefault == <<Norm(1, 100), 128>>

TableRows == {RowLawnmower, RowTraffic, RowConstruction, RowFanHvac, RowDefault}

\* Filter parameters the filter is run with on its own: the rows of the
\* table, short filters with step sizes 0, 1/2, 1 and 2, a long filter with
\* step size 0, and a filter of four taps whose step size 3 makes a weight
\* overflow at the first sample.
LmsParams ==
    TableRows \cup {<<Zero, 2>>, <<Norm(1, 2), 3>>, <<Num(1), 2>>, <<Num(2), 1>>,
                    <<Zero, 128>>, <<Num(3), 4>>}

\* Longest input signal of the filter run on its own.
MaxLmsLen == 3

\* Calls of applyLMSFilter in one run of the filter on its own.
MaxCalls == 2

\* Input samples are finite, as the samples of a decoded AudioBuffer are;
\* non-finite values arise only inside the filter, when it diverges.
LmsSamples == {Num(-2), Num(1)}

\* Input signals of the filter run on its own: every signal of the two
\* sample values and the silent signal, at each length up to MaxLmsLen.
LmsSignals ==
    UNION {[0..(l - 1) -> LmsSamples] \cup {ZeroArray(l)} : l \in 0..MaxLmsLen}

LmsInit ==
    /\ pc = "lms_idle"
    /\ LmsIdle
    /\ PostIdle /\ ProcIdle /\ ClsIdle
    /\ AppIdle

\* lines 59-72: a call applyLMSFilter(inputSignal, outputSignal, mu, L) with a
\* zeroed outputSignal of the input's length; the locals are allocated
LmsCall ==
    /\ pc \in {"lms_idle", "lms_returned"}
    /\ calls < MaxCalls
    /\ \E inp \in LmsSignals, p \in LmsParams :
         /\ inputSignal' = inp
         /\ outputSignal' = ZeroArray(ALen(inp))
         /\ stepSize' = p[1]
         /\ filterLength' = p[2]
         /\ weights' = LmsFresh(p[2]).weights
         /\ buffer' = LmsFresh(p[2]).buffer
         /\ prevOutput' = LmsFresh(p[2]).prevOutput
    /\ n' = 0
    /\ y' = None
    /\ error' = None
    /\ calls' = calls + 1
    /\ pc' = "lms_loop"
    /\ UNCHANGED <<postVars, procVars, clsVars>>
    /\ UNCHANGED appVars

\* lines 75-106: one iteration of the sample loop
LmsStep ==
    /\ pc = "lms_loop"
    /\ n < ALen(inputSignal)
    /\ LET nx == LmsIteration([weights |-> weights, buffer |-> buffer,
                               prevOutput |-> prevOutput],
                              inputSignal[n], stepSize, n)
       IN  /\ weights' = nx.weights
           /\ buffer' = nx.buffer
           /\ prevOutput' = nx.prevOutput
           /\ y' = nx.y
           /\ error' = nx.error
           /\ outputSignal' = [outputSignal EXCEPT ![n] = F32(nx.error)]
    /\ n' = n + 1
    /\ UNCHANGED <<pc, inputSignal, stepSize, filterLength, calls, postVars, procVars, clsVars>>
    /\ UNCHANGED appVars

\* line 109: the loop exits; applyPostProcessing(outputSignal); return
LmsReturn ==
    /\ pc = "lms_loop"
    /\ ~(n < ALen(inputSignal))
    /\ outputSignal' = applyPostProcessing(outputSignal)
    /\ pc' = "lms_returned"
    /\ UNCHANGED <<inputSignal, stepSize, filterLength, weights, buffer,
                   prevOutput, n, y, error, calls, postVars, procVars, clsVars>>
    /\ UNCHANGED appVars

LmsNext == LmsCall \/ LmsStep \/ LmsReturn

SpecLMS == LmsInit /\ [][LmsNext]_vars

\* ------------------------------------------------------------- processAudio

\* A string is the sequence of its characters.
UpperLetters ==
    <<"A", "B", "C", "D", "E", "F", "G", "H", "I", "J", "K", "L", "M", "N", "O", "P", "Q", "R", "S", "T", "U", "V", "W", "X", "Y", "Z">>

LowerLetters ==
    <<"a", "b", "c", "d", "e", "f", "g", "h", "i", "j", "k", "l", "m", "n", "o", "p", "q", "r", "s", "t", "u", "v", "w", "x", "y", "z">>

\* Mutant of toLowerCase: the label is compared as it is given.
toLowerCaseMissing(str) == str

\* String.prototype.toLowerCase on the characters of the labels
toLowerCase(str) ==
    [k \in DOMAIN str |->
        IF \E a \in DOMAIN UpperLetters : UpperLetters[a] = str[k]
        THEN LowerLetters[CHOOSE a \in DOMAIN UpperLetters : UpperLetters[a] = str[k]]
        ELSE str[k]]

StrLawnmower == <<"l", "a", "w", "n", "m", "o", "w", "e", "r">>
StrTraffic == <<"t", "r", "a", "f", "f", "i", "c">>
StrConstruction == <<"c", "o", "n", "s", "t", "r", "u", "c", "t", "i", "o", "n">>
StrFanHvac == <<"f", "a", "n", "/", "h", "v", "a", "c">>

\* Mutant of FilterParams: the default branch runs the short periodic-noise
\* filter.
FilterParamsShortDefault(label) ==
    LET l == toLowerCase(label)
    IN  IF l = StrLawnmower THEN RowLawnmower
        ELSE IF l = StrTraffic THEN RowTraffic
        ELSE IF l = StrConstruction THEN RowConstruction
        ELSE IF l = StrFanHvac THEN RowFanHvac
        ELSE RowLawnmower

\* lines 28-48: switch (noiseType.toLowerCase()), the (stepSize,
\* filterLength) applyLMSFilter is called with
FilterParams(label) ==
    LET l == toLowerCase(label)
    IN  IF l = StrLawnmower THEN RowLawnmower
        ELSE IF l = StrTraffic THEN RowTraffic
        ELSE IF l = StrConstruction THEN RowConstruction
        ELSE IF l = StrFanHvac THEN RowFanHvac
        ELSE RowDefault

\* Mutant of createBuffer: the output buffer is always allocated mono.
createBufferMono(channels, len, rate) ==
    [numberOfChannels |-> 1, length |-> len, sampleRate |-> rate,
     data |-> [c \in 0..0 |-> ZeroArray(len)]]

\* lines 13-17: audioContext.createBuffer(channels, length, sampleRate), a
\* buffer of zero-filled channels
createBuffer(channels, len, rate) ==
    [numberOfChannels |-> channels, length |-> len, sampleRate |-> rate,
     data |-> [c \in 0..(channels - 1) |-> ZeroArray(len)]]

\* Mutant of FilterChannel: every channel is filtered from the samples of
\* channel 0.
FilterChannelFirst(orig, proc, c, label) ==
    LET p == FilterParams(label)
    IN  [original  |-> orig,
         processed |-> [proc EXCEPT !.data[c] =
                           applyLMSFilter(orig.data[0], proc.data[c], p[1], p[2])]]

\* Mutant of FilterChannel: the filter runs in place, its result is written
\* to the input channel as well.
FilterChannelInPlace(orig, proc, c, label) ==
    LET p == FilterParams(label)
        r == applyLMSFilter(orig.data[c], proc.data[c], p[1], p[2])
    IN  [original  |-> [orig EXCEPT !.data[c] = r],
         processed |-> [proc EXCEPT !.data[c] = r]]

\* lines 21-48: inputData and outputData are the channel arrays themselves
\* (getChannelData returns the buffer's own storage); the two buffers after
\* applyLMSFilter(inputData, outputData, stepSize, filterLength)
FilterChannel(orig, proc, c, label) ==
    LET p == FilterParams(label)
    IN  [original  |-> orig,
         processed |-> [proc EXCEPT !.data[c] =
                           applyLMSFilter(orig.data[c], proc.data[c], p[1], p[2])]]

\* The label spelled with the letters at the positions of mask in upper case.
Spell(str, mask) ==
    [k \in DOMAIN str |->
        IF k \in mask /\ \E a \in DOMAIN LowerLetters : LowerLetters[a] = str[k]
        THEN UpperLetters[CHOOSE a \in DOMAIN LowerLetters : LowerLetters[a] = str[k]]
        ELSE str[k]]

\* Lower case, all capitals, and capitals as in the classifier's labels
\* ("Lawnmower", "Fan/HVAC").
Spellings(str) ==
    {Spell(str, mask) : mask \in {{}, DOMAIN str, {1} \cup {k \in DOMAIN str : k > 4}}}

\* Labels no row of the table matches: the app's "unknown", the spec's
\* "unknown-noise", the empty string, the classifier's "Crowd" and "Wind",
\* and a label one character away from a row.
UnmatchedLabels ==
    {<<"u", "n", "k", "n", "o", "w", "n">>,
     <<"u", "n", "k", "n", "o", "w", "n", "-", "n", "o", "i", "s", "e">>,
     <<>>,
     <<"C", "r", "o", "w", "d">>,
     <<"W", "i", "n", "d">>,
     <<"l", "a", "w", "n", " ", "m", "o", "w", "e", "r">>}

Labels ==
    Spellings(StrLawnmower) \cup Spellings(StrTraffic) \cup Spellings(StrConstruction)
    \cup Spellings(StrFanHvac) \cup UnmatchedLabels

\* Longest buffer given to processAudio.
MaxProcLen == 3

ChannelCounts == {1, 2}

SampleRates == {44100}

ProcSamples == {Num(-2), Num(1)}

\* The AudioBuffers a decoder hands over: at least one channel, at least one
\* sample, all channels of the same length, a positive sample rate.
AudioBuffers ==
    {[numberOfChannels |-> ch, length |-> len, sampleRate |-> rate, data |-> d] :
        ch \in ChannelCounts, len \in 1..MaxProcLen, rate \in SampleRates,
        d \in UNION {[0..(c - 1) -> [0..(l - 1) -> ProcSamples]] :
                        c \in ChannelCounts, l \in 1..MaxProcLen}}

ValidBuffer(b) ==
    /\ b.numberOfChannels >= 1 /\ b.length >= 1 /\ b.sampleRate > 0
    /\ DOMAIN b.data = 0..(b.numberOfChannels - 1)
    /\ \A c \in DOMAIN b.data : DOMAIN b.data[c] = 0..(b.length - 1)

\* A call processAudio(originalBuffer, audioContext, noiseType) is made.
Init ==
    /\ pc = "proc_create"
    /\ originalBuffer \in {b \in AudioBuffers : ValidBuffer(b)}
    /\ noiseType \in Labels
    /\ processedBuffer = None /\ channel = 0 /\ result = None
    /\ LmsIdle /\ PostIdle /\ ClsIdle
    /\ AppIdle

\* lines 13-17: allocate the output buffer with the input's shape
ProcCreate ==
    /\ pc = "proc_create"
    /\ processedBuffer' = createBuffer(originalBuffer.numberOfChannels,
                                       originalBuffer.length,
                                       originalBuffer.sampleRate)
    /\ channel' = 0
    /\ pc' = "proc_loop"
    /\ UNCHANGED <<originalBuffer, noiseType, result, lmsVars, postVars, clsVars>>
    /\ UNCHANGED appVars

\* lines 20-49: one iteration of the channel loop, a complete call of
\* applyLMSFilter on the channel's input and output arrays
ProcChannel ==
    /\ pc = "proc_loop"
    /\ channel < originalBuffer.numberOfChannels
    /\ \E after \in {FilterChannel(originalBuffer, processedBuffer, channel, noiseType)} :
           /\ originalBuffer' = after.original
           /\ processedBuffer' = after.processed
           /\ inputSignal' = after.original.data[channel]
           /\ outputSignal' = after.processed.data[channel]
    /\ stepSize' = FilterParams(noiseType)[1]
    /\ filterLength' = FilterParams(noiseType)[2]
    /\ calls' = calls + 1
    /\ channel' = channel + 1
    /\ UNCHANGED <<pc, noiseType, result, weights, buffer, prevOutput, n, y, error,
                   postVars, clsVars>>
    /\ UNCHANGED appVars

\* line 52: the channel loop exits; await the 1500 ms timer
ProcAwait ==
    /\ pc = "proc_loop"
    /\ ~(channel < originalBuffer.numberOfChannels)
    /\ pc' = "proc_await"
    /\ UNCHANGED <<procVars, lmsVars, postVars, clsVars>>
    /\ UNCHANGED appVars

\* line 54: the timer fires; return processedBuffer
ProcReturn ==
    /\ pc = "proc_await"
    /\ result' = processedBuffer
    /\ pc' = "proc_returned"
    /\ UNCHANGED <<originalBuffer, processedBuffer, noiseType, channel,
                   lmsVars, postVars, clsVars>>
    /\ UNCHANGED appVars

Next == ProcCreate \/ ProcChannel \/ ProcAwait \/ ProcReturn

Spec == Init /\ [][Next]_vars

\* processAudio is exported and checks nothing about its argument.  The
\* buffer objects with channels of mismatched length: two channels, channel 1
\* one sample shorter or longer than `length` says.  (A channel count of 0 or
\* a sample rate <= 0 is refused by audioContext.createBuffer itself and is
\* not among the inputs.)
MismatchedBuffers ==
    {[numberOfChannels |-> 2, length |-> len, sampleRate |-> rate,
      data |-> [c \in 0..1 |-> IF c = 0 THEN d0 ELSE d1]] :
        len \in 2..MaxProcLen, rate \in SampleRates,
        d0 \in UNION {[0..(l - 1) -> ProcSamples] : l \in 2..MaxProcLen},
        d1 \in UNION {[0..(l - 1) -> ProcSamples] : l \in 1..(MaxProcLen + 1)}}

Mismatched(b) ==
    /\ ALen(b.data[0]) = b.length
    /\ ALen(b.data[1]) \in {b.length - 1, b.length + 1}

\* A call processAudio(originalBuffer, audioContext, noiseType) on any buffer
\* object: a decoded AudioBuffer or one with mismatched channels.
AnyInit ==
    /\ pc = "proc_create"
    /\ originalBuffer \in {b \in AudioBuffers : ValidBuffer(b) /\ b.length = 2}
                          \cup {b \in MismatchedBuffers : Mismatched(b)}
    /\ noiseType \in {StrLawnmower, <<>>}
    /\ processedBuffer = None /\ channel = 0 /\ result = None
    /\ LmsIdle /\ PostIdle /\ ClsIdle
    /\ AppIdle

SpecAnyInput == AnyInit /\ [][Next]_vars

\* ---------------------------------------------------------- NoiseClassifier

\* Values Math.random() is drawn from: k / RandSteps for k = 0..RandSteps-1
\* and a value just below 1, all in [0, 1).
RandSteps == 2

Draws == {Norm(k, RandSteps) : k \in 0..(RandSteps - 1)} \cup {Norm(99, 100)}

\* part_000 line 15
NOISE_TYPES ==
    <<<<"L", "a", "w", "n", "m", "o", "w", "e", "r">>,
      <<"T", "r", "a", "f", "f", "i", "c">>,
      <<"C", "o", "n", "s", "t", "r", "u", "c", "t", "i", "o", "n">>,
      <<"F", "a", "n", "/", "H", "V", "A", "C">>,
      <<"C", "r", "o", "w", "d">>,
      <<"W", "i", "n", "d">>>>

\* const frameSize = 1024
frameSize == 1024

Min(a, b) == IF a < b THEN a ELSE b

\* line 153: the sum of val * val over the samples lo..hi (channelData.reduce)
RECURSIVE SumSquares(_, _, _)
SumSquares(ch, lo, hi) ==
    IF lo > hi THEN Zero
    ELSE IF lo = hi THEN FMul(ch[lo], ch[lo])
    ELSE LET mid == (lo + hi) \div 2
         IN  FAdd(SumSquares(ch, lo, mid), SumSquares(ch, mid + 1, hi))

\* line 157: samples k-1 and k lie on different sides of zero (0 counts as
\* non-negative)
Crossing(ch, k) ==
    \/ FGe(ch[k], Zero) /\ FLt(ch[k - 1], Zero)
    \/ FLt(ch[k], Zero) /\ FGe(ch[k - 1], Zero)

\* lines 156-160: the number of crossings at the indices 1..length-1
CountCrossings(ch) == Cardinality({k \in 1..(ALen(ch) - 1) : Crossing(ch, k)})

\* lines 177-182: the sum of channelData[k] * channelData[k + lag] over the
\* k = lo..hi (all of them with k + lag < length)
RECURSIVE Correlation(_, _, _, _)
Correlation(ch, lag, lo, hi) ==
    IF lo > hi THEN Zero
    ELSE IF lo = hi THEN FMul(ch[lo], ch[lo + lag])
    ELSE LET mid == (lo + hi) \div 2
         IN  FAdd(Correlation(ch, lag, lo, mid), Correlation(ch, lag, mid + 1, hi))

\* lines 176-184: sumCorrelation over the lags lo..hi.  A lag >= length has
\* no pair in bounds and adds |0|; the k of a lag stop at length - 1 - lag.
RECURSIVE SumCorrelation(_, _, _)
SumCorrelation(ch, lo, hi) ==
    IF lo > hi THEN Zero
    ELSE IF lo = hi
         THEN MathAbs(Correlation(ch, lo, 0, Min(frameSize - 1, ALen(ch) - 1 - lo)))
    ELSE LET mid == (lo + hi) \div 2
         IN  FAdd(SumCorrelation(ch, lo, mid), SumCorrelation(ch, mid + 1, hi))

\* Mutant of extractFeatures: the last channel of the buffer is read.
extractFeaturesLastChannel(buf, r) ==
    LET channelData == buf.data[buf.numberOfChannels - 1]
        len == ALen(channelData)
        zc  == FDiv(Num(CountCrossings(channelData)), Num(len))
    IN  [energy           |-> FDiv(SumSquares(channelData, 0, len - 1), Num(len)),
         zeroCrossings    |-> zc,
         spectralCentroid |-> FMul(zc, Num(10000)),
         spectralFlatness |-> FAdd(FMul(r, Norm(1, 2)), Norm(2, 10)),
         periodicity      |-> FDiv(SumCorrelation(channelData, 1, Min(frameSize - 1, len - 1)),
                                   Num(frameSize))]

\* lines 142-189: extractFeatures(buffer), with r the value Math.random()
\* returns at line 169
extractFeatures(buf, r) ==
    LET channelData == buf.data[0]
        len == ALen(channelData)
        zc  == FDiv(Num(CountCrossings(channelData)), Num(len))
    IN  [energy           |-> FDiv(SumSquares(channelData, 0, len - 1), Num(len)),
         zeroCrossings    |-> zc,
         spectralCentroid |-> FMul(zc, Num(10000)),
         spectralFlatness |-> FAdd(FMul(r, Norm(1, 2)), Norm(2, 10)),
         periodicity      |-> FDiv(SumCorrelation(channelData, 1, Min(frameSize - 1, len - 1)),
                                   Num(frameSize))]

\* score.toFixed(2) then Number.parseFloat: the multiple of 0.01 nearest to
\* x, the larger one when two are equally near
ToFixed2(x) ==
    IF ~IsFinite(x) THEN x
    ELSE LET a == Abs(x[1])
             m == (200 * a + x[2]) \div (2 * x[2])
         IN  Norm(Sgn(x[1]) * m, 100)

\* Mutant of Bonus: the Traffic condition misses its lower bound on the
\* energy.
BonusTrafficNoFloor(type, f) ==
    IF type = NOISE_TYPES[1]
    THEN (IF FGt(f.energy, Norm(1, 10)) /\ FGt(f.periodicity, Norm(5, 10))
          THEN Norm(5, 10) ELSE Zero)
    ELSE IF type = NOISE_TYPES[2]
    THEN (IF FLt(f.energy, Norm(2, 10)) /\ FLt(f.periodicity, Norm(3, 10))
          THEN Norm(4, 10) ELSE Zero)
    ELSE IF type = NOISE_TYPES[3]
    THEN (IF FGt(f.energy, Norm(15, 100)) /\ FGt(f.zeroCrossings, Norm(3, 10))
          THEN Norm(3, 10) ELSE Zero)
    ELSE IF type = NOISE_TYPES[4]
    THEN (IF FLt(f.energy, Norm(1, 10)) /\ FLt(f.zeroCrossings, Norm(2, 10))
             /\ FGt(f.periodicity, Norm(6, 10))
          THEN Norm(6, 10) ELSE Zero)
    ELSE IF type = NOISE_TYPES[5]
    THEN (IF FLt(f.periodicity, Norm(2, 10)) THEN Norm(3, 10) ELSE Zero)
    ELSE IF type = NOISE_TYPES[6]
    THEN (IF FLt(f.energy, Norm(15, 100)) /\ FLt(f.zeroCrossings, Norm(15, 100))
          THEN Norm(4, 10) ELSE Zero)
    ELSE Zero

\* Mutant of Bonus: Fan/HVAC is given the bonus of Wind, 0.4.
BonusFanAsWind(type, f) ==
    IF type = NOISE_TYPES[1]
    THEN (IF FGt(f.energy, Norm(1, 10)) /\ FGt(f.periodicity, Norm(5, 10))
          THEN Norm(5, 10) ELSE Zero)
    ELSE IF type = NOISE_TYPES[2]
    THEN (IF FGt(f.energy, Norm(5, 100)) /\ FLt(f.energy, Norm(2, 10))
             /\ FLt(f.periodicity, Norm(3, 10))
          THEN Norm(4, 10) ELSE Zero)
    ELSE IF type = NOISE_TYPES[3]
    THEN (IF FGt(f.energy, Norm(15, 100)) /\ FGt(f.zeroCrossings, Norm(3, 10))
          THEN Norm(3, 10) ELSE Zero)
    ELSE IF type = NOISE_TYPES[4]
    THEN (IF FLt(f.energy, Norm(1, 10)) /\ FLt(f.zeroCrossings, Norm(2, 10))
             /\ FGt(f.periodicity, Norm(6, 10))
          THEN Norm(4, 10) ELSE Zero)
    ELSE IF type = NOISE_TYPES[5]
    THEN (IF FLt(f.periodicity, Norm(2, 10)) THEN Norm(3, 10) ELSE Zero)
    ELSE IF type = NOISE_TYPES[6]
    THEN (IF FLt(f.energy, Norm(15, 100)) /\ FLt(f.zeroCrossings, Norm(15, 100))
          THEN Norm(4, 10) ELSE Zero)
    ELSE Zero

\* lines 200-242: the bonus of the type on the features, 0 when its
\* condition fails
Bonus(type, f) ==
    IF type = NOISE_TYPES[1]
    THEN (IF FGt(f.energy, Norm(1, 10)) /\ FGt(f.periodicity, Norm(5, 10))
          THEN Norm(5, 10) ELSE Zero)
    ELSE IF type = NOISE_TYPES[2]
    THEN (IF FGt(f.energy, Norm(5, 100)) /\ FLt(f.energy, Norm(2, 10))
             /\ FLt(f.periodicity, Norm(3, 10))
          THEN Norm(4, 10) ELSE Zero)
    ELSE IF type = NOISE_TYPES[3]
    THEN (IF FGt(f.energy, Norm(15, 100)) /\ FGt(f.zeroCrossings, Norm(3, 10))
          THEN Norm(3, 10) ELSE Zero)
    ELSE IF type = NOISE_TYPES[4]
    THEN (IF FLt(f.energy, Norm(1, 10)) /\ FLt(f.zeroCrossings, Norm(2, 10))
             /\ FGt(f.periodicity, Norm(6, 10))
          THEN Norm(6, 10) ELSE Zero)
    ELSE IF type = NOISE_TYPES[5]
    THEN (IF FLt(f.periodicity, Norm(2, 10)) THEN Norm(3, 10) ELSE Zero)
    ELSE IF type = NOISE_TYPES[6]
    THEN (IF FLt(f.energy, Norm(15, 100)) /\ FLt(f.zeroCrossings, Norm(15, 100))
          THEN Norm(4, 10) ELSE Zero)
    ELSE Zero

\* Mutant of TypeScore: the score starts from 0 instead of the random base.
TypeScoreBonusOnly(type, f, r) ==
    ToFixed2(MathMin(Num(1), Bonus(type, f)))

\* Mutant of TypeScore: the base score is 0.1 + 0.4 * random.
TypeScoreWideBase(type, f, r) ==
    ToFixed2(MathMin(Num(1), FAdd(FAdd(Norm(1, 10), FMul(r, Norm(4, 10))), Bonus(type, f))))

\* Mutant of TypeScore: the score is stored as computed, without
\* toFixed(2).
TypeScoreUnrounded(type, f, r) ==
    MathMin(Num(1), FAdd(FAdd(Norm(1, 10), FMul(r, Norm(2, 10))), Bonus(type, f)))

\* lines 196-246: one iteration of NOISE_TYPES.forEach, with r the value
\* Math.random() returns at line 197
TypeScore(type, f, r) ==
    ToFixed2(MathMin(Num(1), FAdd(FAdd(Norm(1, 10), FMul(r, Norm(2, 10))), Bonus(type, f))))

\* Mutant of SelectHighest: `>=` instead of `>`, the last of several equal
\* scores is kept.
RECURSIVE SelectHighestLast(_, _, _)
SelectHighestLast(entries, k, best) ==
    IF k > Len(entries) THEN best
    ELSE SelectHighestLast(entries, k + 1,
                           IF FGe(entries[k][2], best.highestScore)
                           THEN [highestScore |-> entries[k][2], detectedType |-> entries[k][1]]
                           ELSE best)

\* lines 126-134: Object.entries(scores).forEach from entry k on, keeping
\* the first entry whose score exceeds the running highestScore
RECURSIVE SelectHighest(_, _, _)
SelectHighest(entries, k, best) ==
    IF k > Len(entries) THEN best
    ELSE SelectHighest(entries, k + 1,
                       IF FGt(entries[k][2], best.highestScore)
                       THEN [highestScore |-> entries[k][2], detectedType |-> entries[k][1]]
                       ELSE best)

\* Channel data of `len` samples alternating a, b, a, b, ...
Pattern(a, b, len) == [k \in 0..(len - 1) |-> IF k % 2 = 0 THEN F32(a) ELSE F32(b)]

\* Channel data of `len` samples of a square wave: `half` samples at a, then
\* `half` samples at -a, ...
Square(a, half, len) ==
    [k \in 0..(len - 1) |-> IF (k \div half) % 2 = 0 THEN F32(a) ELSE F32(FNeg(a))]

\* The signals given to the classifier: no sample at all, silence, steady,
\* alternating and square-wave signals, short and long enough to be periodic.
ClsChannels ==
    {ZeroArray(0),
     Pattern(Zero, Zero, 4),
     Pattern(Norm(5, 10), Norm(5, 10), 48),
     Square(Norm(3, 10), 6, 240),
     Pattern(Norm(3, 10), Norm(3, 10), 8),
     Pattern(Norm(3, 10), Norm(3, 10), 160),
     Pattern(Norm(5, 10), Norm(5, 10), 120),
     Pattern(Norm(5, 10), Norm(-5, 10), 8),
     Pattern(Norm(5, 10), Norm(-5, 10), 120),
     Pattern(Norm(4, 10), Norm(2, 10), 2),
     Pattern(Num(1), Num(-2), 3)}

ClsBuffers ==
    {[numberOfChannels |-> 1, length |-> ALen(ch), sampleRate |-> 44100,
      data |-> [c \in 0..0 |-> ch]] : ch \in ClsChannels}
    \cup
    {[numberOfChannels |-> 2, length |-> ALen(ch), sampleRate |-> 48000,
      data |-> [c \in 0..1 |-> IF c = 0 THEN ch
                                ELSE [k \in 0..(ALen(ch) - 1) |-> Num(1)]]] :
        ch \in ClsChannels}

\* The component is rendered with audioBuffer = originalBuffer.
ClsInit ==
    /\ pc = "cls_extract"
    /\ originalBuffer \in ClsBuffers
    /\ processedBuffer = None /\ noiseType = None /\ channel = 0 /\ result = None
    /\ ClsIdle /\ LmsIdle /\ PostIdle
    /\ AppIdle

\* lines 117-120: features = extractFeatures(audioBuffer); await 800 ms
ClsExtract ==
    /\ pc = "cls_extract"
    /\ \E r \in Draws : features' = extractFeatures(originalBuffer, r)
    /\ scores' = <<>>
    /\ typeIndex' = 1
    /\ pc' = "cls_predict"
    /\ UNCHANGED <<highestScore, detectedType, classified, procVars, lmsVars, postVars>>
    /\ UNCHANGED appVars

\* lines 195-247: one iteration of NOISE_TYPES.forEach in
\* simulateModelPrediction
ClsPredict ==
    /\ pc = "cls_predict"
    /\ typeIndex <= Len(NOISE_TYPES)
    /\ \E r \in Draws :
         scores' = Append(scores, <<NOISE_TYPES[typeIndex],
                                    TypeScore(NOISE_TYPES[typeIndex], features, r)>>)
    /\ typeIndex' = typeIndex + 1
    /\ UNCHANGED <<pc, features, highestScore, detectedType, classified,
                   procVars, lmsVars, postVars>>
    /\ UNCHANGED appVars

\* lines 126-134: the scores are returned; find the highest
ClsSelect ==
    /\ pc = "cls_predict"
    /\ ~(typeIndex <= Len(NOISE_TYPES))
    /\ \E best \in {SelectHighest(scores, 1, [highestScore |-> Zero, detectedType |-> <<>>])} :
         /\ highestScore' = best.highestScore
         /\ detectedType' = best.detectedType
    /\ pc' = "cls_report"
    /\ UNCHANGED <<features, scores, typeIndex, classified, procVars, lmsVars, postVars>>
    /\ UNCHANGED appVars

\* lines 136-138: setConfidenceScores, setNoiseType, onClassified(detectedType)
ClsReport ==
    /\ pc = "cls_report"
    /\ classified' = detectedType
    /\ pc' = "cls_done"
    /\ UNCHANGED <<features, scores, typeIndex, highestScore, detectedType,
                   procVars, lmsVars, postVars>>
    /\ UNCHANGED appVars

ClsNext == ClsExtract \/ ClsPredict \/ ClsSelect \/ ClsReport

SpecClassify == ClsInit /\ [][ClsNext]_vars

\* The component is rendered with a buffer of more than one channel.
ClsInitStereo ==
    /\ ClsInit
    /\ originalBuffer.numberOfChannels > 1

SpecClassifyStereo == ClsInitStereo /\ [][ClsNext]_vars

\* Both entry points of the core on a caller's buffer: process and classify.
CoreInit == Init \/ ClsInit

CoreNext == Next \/ ClsNext

SpecCore == CoreInit /\ [][CoreNext]_vars

\* ------------------------------------------------------ NoiseCancellationApp

\* Files loaded in one run of the page.
MaxLoads == 2

\* Clicks on the "Cancel Noise" button in one run of the page.
MaxClicks == 2

\* The labels a classification can report (part_000 line 138).
AppLabels == {NOISE_TYPES[k] : k \in DOMAIN NOISE_TYPES}

\* "unknown", the label of processNoiseCancellation for a null noiseType
StrUnknown == <<"u", "n", "k", "n", "o", "w", "n">>

\* The buffer decoded by the k-th load, identified by that number.
Decoded(k) == <<k>>

\* Mutant of SetLoaded: the label of the previous audio is kept.
SetLoadedKeepsLabel(decodedAudio, oldNoiseType) ==
    [originalAudio |-> decodedAudio, processedAudio |-> None, noiseType |-> oldNoiseType]

\* part_002 lines 81-83 (and 121-123): setOriginalAudio(decodedAudio),
\* setProcessedAudio(null), setNoiseType(null)
SetLoaded(decodedAudio, oldNoiseType) ==
    [originalAudio |-> decodedAudio, processedAudio |-> None, noiseType |-> None]

\* part_000 lines 104-106: the cleanup of every effect run so far
Unmount(rs) == [k \in DOMAIN rs |-> [rs[k] EXCEPT !.isMounted = FALSE]]

\* Mutant of Settled: setIsProcessing(false) only after a result.
SettledNoFinally(call, resolved, oldProcessedAudio) ==
    [processedAudio |-> IF resolved THEN call ELSE oldProcessedAudio,
     isProcessing   |-> ~resolved]

\* part_002 lines 143-149: the page state a settled processAudio call
\* leaves: setProcessedAudio(result) if it resolved, the catch clause if it
\* threw, and setIsProcessing(false) in the finally clause
Settled(call, resolved, oldProcessedAudio) ==
    [processedAudio |-> IF resolved THEN call ELSE oldProcessedAudio,
     isProcessing   |-> FALSE]

\* The sequence s without its k-th element.
Without(s, k) == [j \in 1..(Len(s) - 1) |-> IF j < k THEN s[j] ELSE s[j + 1]]

AppInit ==
    /\ pc = "app"
    /\ AppIdle
    /\ ProcIdle /\ LmsIdle /\ PostIdle /\ ClsIdle

\* part_002 lines 80-85 / 120-125: the timer after a decode sets the new
\* audio; the page renders <NoiseClassifier audioBuffer={originalAudio}>
\* (line 361), whose effect on [audioBuffer] (part_000 26-107) cleans up the
\* previous run and starts loadTensorFlow for the new buffer, which sets
\* the stage to "loading" (line 32).
AppLoad ==
    /\ pc = "app"
    /\ loads < MaxLoads
    /\ \E st \in {SetLoaded(Decoded(loads + 1), noiseTypeState)} :
         /\ originalAudio' = st.originalAudio
         /\ processedAudio' = st.processedAudio
         /\ noiseTypeState' = st.noiseType
    /\ runs' = Append(Unmount(runs),
                      [audioBuffer |-> Decoded(loads + 1), isMounted |-> TRUE,
                       at |-> "loading"])
    /\ stage' = "loading"
    /\ loads' = loads + 1
    /\ classifiedFrom' = None
    /\ UNCHANGED <<pc, isProcessing, inFlight, clicks, procVars, lmsVars, postVars,
                   clsVars, playVars>>

\* part_000 lines 47-59: the loading loop passes its last isMounted check
\* and waits for its last 50 ms timer
RunLoaded ==
    /\ pc = "app"
    /\ \E r \in DOMAIN runs :
         /\ runs[r].at = "loading" /\ runs[r].isMounted
         /\ runs' = [runs EXCEPT ![r].at = "loaded"]
    /\ UNCHANGED <<pc, originalAudio, processedAudio, isProcessing, noiseTypeState,
                   stage, inFlight, loads, clicks, classifiedFrom,
                   procVars, lmsVars, postVars, clsVars, playVars>>

\* part_000 lines 61-64: the timer fires; setStage("analyzing") (without a
\* look at isMounted)
RunAnalyzing ==
    /\ pc = "app"
    /\ \E r \in DOMAIN runs :
         /\ runs[r].at = "loaded"
         /\ runs' = [runs EXCEPT ![r].at = "analyzing"]
    /\ stage' = "analyzing"
    /\ UNCHANGED <<pc, originalAudio, processedAudio, isProcessing, noiseTypeState,
                   inFlight, loads, clicks, classifiedFrom,
                   procVars, lmsVars, postVars, clsVars, playVars>>

\* part_000 lines 48 and 76: `if (!isMounted) return` inside either loop
RunAbort ==
    /\ pc = "app"
    /\ \E r \in DOMAIN runs :
         /\ runs[r].at \in {"loading", "analyzing"} /\ ~runs[r].isMounted
         /\ runs' = [runs EXCEPT ![r].at = "aborted"]
    /\ UNCHANGED <<pc, originalAudio, processedAudio, isProcessing, noiseTypeState,
                   stage, inFlight, loads, clicks, classifiedFrom,
                   procVars, lmsVars, postVars, clsVars, playVars>>

\* part_000 lines 75-91 and 117-120: the analysis loop passes its last
\* isMounted check; classifyNoise is called and waits for its 800 ms timer
RunAnalyzed ==
    /\ pc = "app"
    /\ \E r \in DOMAIN runs :
         /\ runs[r].at = "analyzing" /\ runs[r].isMounted
         /\ runs' = [runs EXCEPT ![r].at = "inference"]
    /\ UNCHANGED <<pc, originalAudio, processedAudio, isProcessing, noiseTypeState,
                   stage, inFlight, loads, clicks, classifiedFrom,
                   procVars, lmsVars, postVars, clsVars, playVars>>

\* part_000 lines 123-138 and 92-93: the timer fires; the label is selected
\* and onClassified(detectedType), the page's setNoiseType, is called;
\* classifyNoise returns and loadTensorFlow sets the stage to "complete"
\* (neither looks at isMounted)
RunClassified ==
    /\ pc = "app"
    /\ \E r \in DOMAIN runs :
         /\ runs[r].at = "inference"
         /\ runs' = [runs EXCEPT ![r].at = "complete"]
         /\ classifiedFrom' = runs[r].audioBuffer
    /\ \E label \in AppLabels : noiseTypeState' = label
    /\ stage' = "complete"
    /\ UNCHANGED <<pc, originalAudio, processedAudio, isProcessing,
                   inFlight, loads, clicks, procVars, lmsVars, postVars, clsVars,
                   playVars>>

\* part_002 lines 136-143: a click on the button, which is rendered only
\* with originalAudio and noiseType set (lines 354, 364) and enabled only
\* while nothing is processed (line 373); processAudio is started
AppClick ==
    /\ pc = "app"
    /\ clicks < MaxClicks
    /\ originalAudio # None /\ noiseTypeState # None
    /\ ~(isProcessing \/ noiseTypeState = None)
    /\ isProcessing' = TRUE
    /\ inFlight' = Append(inFlight,
                          [originalBuffer |-> originalAudio,
                           noiseType |-> IF noiseTypeState # None THEN noiseTypeState
                                         ELSE StrUnknown])
    /\ clicks' = clicks + 1
    /\ UNCHANGED <<pc, originalAudio, processedAudio, noiseTypeState, runs, stage,
                   loads, classifiedFrom, procVars, lmsVars, postVars, clsVars,
                   playVars>>

\* part_002 lines 143-144 and 147-149 with audio-processor.ts lines 51-54:
\* the 1500 ms timer of a pending processAudio call fires and the call
\* resolves; setProcessedAudio(result), setIsProcessing(false)
AppProcessed ==
    /\ pc = "app"
    /\ \E k \in DOMAIN inFlight :
         /\ \E st \in {Settled(inFlight[k], TRUE, processedAudio)} :
              /\ processedAudio' = st.processedAudio
              /\ isProcessing' = st.isProcessing
         /\ inFlight' = Without(inFlight, k)
    /\ UNCHANGED <<pc, originalAudio, noiseTypeState, runs, stage, loads, clicks,
                   classifiedFrom, procVars, lmsVars, postVars, clsVars, playVars>>

\* part_002 lines 145-149: a pending processAudio call throws; the catch
\* clause reports it, setIsProcessing(false)
AppFailed ==
    /\ pc = "app"
    /\ \E k \in DOMAIN inFlight :
         /\ \E st \in {Settled(inFlight[k], FALSE, processedAudio)} :
              /\ processedAudio' = st.processedAudio
              /\ isProcessing' = st.isProcessing
         /\ inFlight' = Without(inFlight, k)
    /\ UNCHANGED <<pc, originalAudio, noiseTypeState, runs, stage, loads, clicks,
                   classifiedFrom, procVars, lmsVars, postVars, clsVars, playVars>>

AppNext ==
    AppLoad \/ RunLoaded \/ RunAnalyzing \/ RunAbort \/ RunAnalyzed \/ RunClassified
    \/ AppClick \/ AppProcessed \/ AppFailed

SpecApp == AppInit /\ [][AppNext]_vars

\* The timers of the classifier runs and of processAudio fire, and a
\* rejected processAudio call is reported.
AppFairness ==
    /\ WF_vars(AppProcessed \/ AppFailed)
    /\ WF_vars(RunLoaded \/ RunAnalyzing \/ RunAbort \/ RunAnalyzed \/ RunClassified)

SpecAppFair == SpecApp /\ AppFairness

\* ------------------------------------------------------ playAudio, stopAudio

\* Sources created by playAudio in one run of the players.
MaxPlays == 3

PlayTypes == {"original", "processed"}

\* The ref of a player type (part_002 lines 30-31); a source is identified
\* by its position in sources.
RefOf(type) == IF type = "original" THEN originalSourceRef ELSE processedSourceRef

\* source.stop() on the sources the refs hold (lines 156-164, 197-203): a
\* playing source stops; its 'ended' event is dispatched later.
Stopped(srcs, held) ==
    [k \in DOMAIN srcs |->
        IF <<k>> \in held /\ srcs[k].status = "playing"
        THEN [srcs[k] EXCEPT !.status = "stopping"]
        ELSE srcs[k]]

\* The buffer a player plays (line 171)
BufferOf(type) == IF type = "original" THEN originalAudio ELSE processedAudio

\* The page with one audio loaded and classified, before or after it has
\* been processed (a state of the page that SpecApp reaches).
PlayStart(processed) ==
    /\ originalAudio = Decoded(1)
    /\ noiseTypeState = NOISE_TYPES[1]
    /\ classifiedFrom = Decoded(1)
    /\ runs = <<[audioBuffer |-> Decoded(1), isMounted |-> TRUE, at |-> "complete"]>>
    /\ stage = "complete"
    /\ loads = 1
    /\ isProcessing = FALSE /\ inFlight = <<>>
    /\ processedAudio = IF processed
                        THEN [originalBuffer |-> Decoded(1), noiseType |-> NOISE_TYPES[1]]
                        ELSE None
    /\ clicks = IF processed THEN 1 ELSE 0

PlayInit ==
    /\ pc = "play"
    /\ \E processed \in BOOLEAN : PlayStart(processed)
    /\ PlayIdle
    /\ ProcIdle /\ LmsIdle /\ PostIdle /\ ClsIdle

\* part_002 lines 152-194 behind the button of lines 467 / 528-529:
\* playAudio(type), called by a click while isPlaying[type] is false
PlayClick(type) ==
    /\ pc = "play"
    /\ originalAudio # None
    /\ type = "processed" => processedAudio # None
    /\ ~isPlaying[type]
    /\ Len(sources) < MaxPlays
    /\ isPlaying' = [original |-> (type = "original"), processed |-> (type = "processed")]
    /\ IF BufferOf(type) = None
       THEN /\ sources' = Stopped(sources, {originalSourceRef, processedSourceRef})
            /\ originalSourceRef' = None
            /\ processedSourceRef' = None
       ELSE /\ sources' = Append(Stopped(sources, {originalSourceRef, processedSourceRef}),
                                 [type |-> type, status |-> "playing"])
            /\ originalSourceRef' = IF type = "original" THEN <<Len(sources) + 1>> ELSE None
            /\ processedSourceRef' = IF type = "processed" THEN <<Len(sources) + 1>> ELSE None
    /\ UNCHANGED <<pc, originalAudio, processedAudio, isProcessing, noiseTypeState,
                   runs, stage, inFlight, loads, clicks, classifiedFrom,
                   procVars, lmsVars, postVars, clsVars>>

\* part_002 lines 196-206 behind the same buttons: stopAudio(type), called
\* by a click while isPlaying[type] is true
StopClick(type) ==
    /\ pc = "play"
    /\ originalAudio # None
    /\ type = "processed" => processedAudio # None
    /\ isPlaying[type]
    /\ sources' = Stopped(sources, {RefOf(type)})
    /\ originalSourceRef' = IF type = "original" THEN None ELSE originalSourceRef
    /\ processedSourceRef' = IF type = "processed" THEN None ELSE processedSourceRef
    /\ isPlaying' = [isPlaying EXCEPT ![type] = FALSE]
    /\ UNCHANGED <<pc, originalAudio, processedAudio, isProcessing, noiseTypeState,
                   runs, stage, inFlight, loads, clicks, classifiedFrom,
                   procVars, lmsVars, postVars, clsVars>>

\* part_002 lines 178-185: the onended callback of source k, run when the
\* 'ended' event of a source that was stopped, or that has played to its
\* end, is dispatched
OnEnded(k) ==
    /\ pc = "play"
    /\ k \in DOMAIN sources
    /\ sources[k].status \in {"playing", "stopping"}
    /\ sources' = [sources EXCEPT ![k].status = "ended"]
    /\ isPlaying' = [isPlaying EXCEPT ![sources[k].type] = FALSE]
    /\ originalSourceRef' =
          IF sources[k].type = "original" THEN None ELSE originalSourceRef
    /\ processedSourceRef' =
          IF sources[k].type = "processed" THEN None ELSE processedSourceRef
    /\ UNCHANGED <<pc, originalAudio, processedAudio, isProcessing, noiseTypeState,
                   runs, stage, inFlight, loads, clicks, classifiedFrom,
                   procVars, lmsVars, postVars, clsVars>>

PlayNext ==
    \/ \E type \in PlayTypes : PlayClick(type)
    \/ \E type \in PlayTypes : StopClick(type)
    \/ \E k \in 1..MaxPlays : OnEnded(k)

SpecPlay == PlayInit /\ [][PlayNext]_vars

\* =================================================================== claims

AllZero(a) == \A k \in DOMAIN a : a[k] = Zero

AllFinite(a) == \A k \in DOMAIN a : IsFinite(a[k])

\* The dot product of the taps lo..hi of the weight vector and the delay line.
RECURSIVE Dot(_, _, _, _)
Dot(w, buf, lo, hi) ==
    IF lo > hi THEN Zero
    ELSE IF lo = hi THEN FMul(w[lo], buf[lo])
    ELSE LET mid == (lo + hi) \div 2
         IN  FAdd(Dot(w, buf, lo, mid), Dot(w, buf, mid + 1, hi))

\* C1: in every iteration n of the sample loop the emitted value is
\* e(n) = x[n] + y(n-1), with y(-1) = 0 and y(n) the dot product of the
\* weights before the update and the delay line of sample n; every weight
\* k = 0..L-1 becomes weights[k] - mu * e(n) * delayLine[k].
\* (Line 99 skips the taps k > n: their delay-line entry is still 0, so for
\* a finite e(n) the skipped update is the stated one.)
C1_ErrorAndUpdate ==
    [][LmsStep =>
        /\ error' = FAdd(inputSignal[n], prevOutput)
        /\ (n = 0 => error' = inputSignal[0])
        /\ outputSignal'[n] = F32(error')
        /\ prevOutput' = Dot(weights, buffer', 0, filterLength - 1)
        /\ \A k \in 0..(filterLength - 1) :
             weights'[k] = F32(FSub(weights[k], FMul(FMul(stepSize, error'), buffer'[k])))
      ]_vars

\* C1 witness: a third sample has been filtered with a non-zero feedback
\* term, and the weights have adapted.
C1_Witness ==
    /\ pc = "lms_loop" /\ n = 3
    /\ IsFinite(error) /\ error # inputSignal[2]
    /\ weights[0] # Zero /\ IsFinite(weights[0])

\* The output of a call that starts from an all-zero filter state.
FreshRun(inp, mu, L) ==
    applyPostProcessing(
        LmsLoop([weights |-> ZeroArray(L), buffer |-> ZeroArray(L), prevOutput |-> Zero],
                inp, ZeroArray(ALen(inp)), mu, 0))

\* C6: every call of the filter starts from weights = 0, delay line = 0 and
\* prevOutput = 0, and the output it returns is the one a first call on the
\* same (input, mu, L) returns, whatever was filtered before.
C6_NoStateBetweenCalls ==
    /\ (pc = "lms_loop" /\ n = 0) =>
         /\ weights = ZeroArray(filterLength)
         /\ buffer = ZeroArray(filterLength)
         /\ prevOutput = Zero
    /\ pc = "lms_returned" =>
         outputSignal = FreshRun(inputSignal, stepSize, filterLength)

\* C6 witness: a second call has returned, after a first call that left
\* adapted weights behind, with an output that differs from its input.
C6_Witness ==
    /\ pc = "lms_returned" /\ calls = 2
    /\ \E k \in DOMAIN weights : weights[k] # Zero
    /\ outputSignal # inputSignal

\* C7: on an all-zero input the weights are zero after every iteration, the
\* error of every iteration is zero and the output signal is all zero.
C7_ZeroSignal ==
    (pc \in {"lms_loop", "lms_returned"} /\ AllZero(inputSignal)) =>
        /\ AllZero(weights)
        /\ (n > 0 => error = Zero)
        /\ AllZero(outputSignal)

\* C7 witness: an all-zero signal of three samples has been filtered with a
\* non-zero step size and the call has returned.
C7_Witness ==
    /\ pc = "lms_returned"
    /\ ALen(inputSignal) = 3 /\ AllZero(inputSignal)
    /\ stepSize # Zero

\* The shape of an AudioBuffer.
ShapeOf(b) == <<b.numberOfChannels, b.length, b.sampleRate>>

\* C2: the buffer process allocates and returns has the channel count, the
\* length and the sample rate of the input buffer, and that many channels
\* of that many samples.
C2_ShapePreserved ==
    /\ processedBuffer # None =>
         /\ ShapeOf(processedBuffer) = ShapeOf(originalBuffer)
         /\ DOMAIN processedBuffer.data = DOMAIN originalBuffer.data
         /\ \A c \in DOMAIN processedBuffer.data :
              DOMAIN processedBuffer.data[c] = DOMAIN originalBuffer.data[c]
    /\ pc = "proc_returned" =>
         /\ result # None
         /\ ShapeOf(result) = ShapeOf(originalBuffer)

\* C2 witness: a stereo buffer of three samples has been processed and
\* returned.
C2_Witness ==
    /\ pc = "proc_returned"
    /\ originalBuffer.numberOfChannels = 2 /\ originalBuffer.length = 3
    /\ result.numberOfChannels = 2 /\ result.length = 3

\* The (mu, L) the table of the specification gives a spelling of a row.
TableOf(label) ==
    IF label \in Spellings(StrLawnmower) THEN <<Norm(1, 100), 32>>
    ELSE IF label \in Spellings(StrTraffic) THEN <<Norm(5, 1000), 128>>
    ELSE IF label \in Spellings(StrConstruction) THEN <<Norm(8, 1000), 64>>
    ELSE IF label \in Spellings(StrFanHvac) THEN <<Norm(3, 1000), 256>>
    ELSE <<Norm(1, 100), 128>>

\* C3: for every upper/lower-case spelling of lawnmower, traffic,
\* construction and fan/hvac, each channel is filtered with exactly the
\* row's (mu, L): (0.01, 32), (0.005, 128), (0.008, 64), (0.003, 256).
C3_ParamsByTable ==
    (noiseType \notin UnmatchedLabels /\ pc = "proc_loop") =>
        /\ calls = channel
        /\ channel > 0 =>
             /\ <<stepSize, filterLength>> = TableOf(noiseType)
             /\ processedBuffer.data[channel - 1] =
                  FreshRun(originalBuffer.data[channel - 1],
                           TableOf(noiseType)[1], TableOf(noiseType)[2])

\* C3 witness: a stereo buffer labelled "FAN/HVAC" has been filtered on both
\* channels with mu = 0.003, L = 256.
C3_Witness ==
    /\ pc = "proc_returned" /\ channel = 2
    /\ noiseType = <<"F", "A", "N", "/", "H", "V", "A", "C">>
    /\ stepSize = Norm(3, 1000) /\ filterLength = 256

\* C4: a label that matches no row is processed to the end with mu = 0.01,
\* L = 128, so the output depends on the buffer alone and is the same for
\* any two such labels.
C4_DefaultFallback ==
    /\ (noiseType \in UnmatchedLabels /\ pc = "proc_loop" /\ channel > 0) =>
         <<stepSize, filterLength>> = <<Norm(1, 100), 128>>
    /\ (noiseType \in UnmatchedLabels /\ pc = "proc_returned") =>
         \A c \in DOMAIN result.data :
             result.data[c] = FreshRun(originalBuffer.data[c], Norm(1, 100), 128)

\* C4 witness: a buffer labelled "Crowd" has been processed and returned, and
\* the filter changed a sample.
C4_Witness ==
    /\ pc = "proc_returned"
    /\ noiseType = <<"C", "r", "o", "w", "d">>
    /\ result.data[0] # applyPostProcessing(originalBuffer.data[0])

\* The output of channel c when the buffer holds that channel alone.
ChannelAlone(b, c, label) ==
    FilterChannel([numberOfChannels |-> 1, length |-> b.length, sampleRate |-> b.sampleRate,
                   data |-> [k \in 0..0 |-> b.data[c]]],
                  createBuffer(1, b.length, b.sampleRate), 0, label).processed.data[0]

\* C5: the output of every channel of the returned buffer is the output of
\* that channel processed alone under the same label; it does not depend on
\* the other channels or on the channels processed before it.
C5_ChannelIndependence ==
    pc = "proc_returned" =>
        \A c \in DOMAIN result.data :
            result.data[c] = ChannelAlone(originalBuffer, c, noiseType)

\* C5 witness: a stereo buffer whose channels differ has been processed, and
\* the two outputs differ.
C5_Witness ==
    /\ pc = "proc_returned"
    /\ originalBuffer.numberOfChannels = 2
    /\ originalBuffer.data[0] # originalBuffer.data[1]
    /\ result.data[0] # result.data[1]

\* C8: every sample the post-processor leaves has absolute value at most 0.9.
C8_AmplitudeBound ==
    pc = "post_done" => \A k \in DOMAIN signal : FGe(ClipLevel, MathAbs(signal[k]))

\* C9: no step of process or classify changes the caller's input buffer.
C9_InputNotWritten == [][originalBuffer' = originalBuffer]_vars

\* C9 witness: process has written a filtered channel that differs from the
\* input channel; the input still holds its samples.
C9_Witness ==
    /\ pc = "proc_returned"
    /\ result.data[0] # originalBuffer.data[0]
    /\ \A k \in DOMAIN originalBuffer.data[0] : originalBuffer.data[0][k] \in ProcSamples

ArchetypeNames ==
    {<<"L", "a", "w", "n", "m", "o", "w", "e", "r">>, <<"T", "r", "a", "f", "f", "i", "c">>,
     <<"C", "o", "n", "s", "t", "r", "u", "c", "t", "i", "o", "n">>, <<"F", "a", "n", "/", "H", "V", "A", "C">>,
     <<"C", "r", "o", "w", "d">>, <<"W", "i", "n", "d">>}

\* x is a finite multiple of 0.01 in [0, 1].
IsScore(x) ==
    /\ IsFinite(x)
    /\ x[1] >= 0 /\ x[1] <= x[2]
    /\ 100 % x[2] = 0

\* C10: every score computed is a multiple of 0.01 in [0, 1], and the map
\* handed on has exactly the six archetypes as keys.
C10_ScoreRange ==
    /\ scores # None => \A k \in DOMAIN scores : IsScore(scores[k][2])
    /\ pc \in {"cls_report", "cls_done"} =>
         /\ Len(scores) = 6
         /\ {scores[k][1] : k \in DOMAIN scores} = ArchetypeNames

\* C10 witness: a classification is complete whose map holds a base score
\* that was rounded (0.298 to 0.3) and a score with a bonus.
C10_Witness ==
    /\ pc = "cls_done"
    /\ \E k \in DOMAIN scores : scores[k][2] = Norm(3, 10)
    /\ \E k \in DOMAIN scores : FGt(scores[k][2], Norm(5, 10))

\* Reached: a call on finite input samples returns non-finite output samples
\* (the filter has diverged past the largest float32).
DivergedOutput ==
    /\ pc = "lms_returned"
    /\ AllFinite(inputSignal)
    /\ \E k \in DOMAIN outputSignal : ~IsFinite(outputSignal[k])

\* ------------------------------------------------- claims on the classifier

\* The six archetypes in their enumeration order.
ArchetypeOrder ==
    <<<<"L", "a", "w", "n", "m", "o", "w", "e", "r">>, <<"T", "r", "a", "f", "f", "i", "c">>,
      <<"C", "o", "n", "s", "t", "r", "u", "c", "t", "i", "o", "n">>, <<"F", "a", "n", "/", "H", "V", "A", "C">>,
      <<"C", "r", "o", "w", "d">>, <<"W", "i", "n", "d">>>>

\* The threshold predicate of the k-th archetype, as the table states it.
TablePredicate(k, f) ==
    CASE k = 1 -> FGt(f.energy, Norm(1, 10)) /\ FGt(f.periodicity, Norm(5, 10))
      [] k = 2 -> FLt(Norm(5, 100), f.energy) /\ FLt(f.energy, Norm(2, 10))
                  /\ FLt(f.periodicity, Norm(3, 10))
      [] k = 3 -> FGt(f.energy, Norm(15, 100)) /\ FGt(f.zeroCrossings, Norm(3, 10))
      [] k = 4 -> FLt(f.energy, Norm(1, 10)) /\ FLt(f.zeroCrossings, Norm(2, 10))
                  /\ FGt(f.periodicity, Norm(6, 10))
      [] k = 5 -> FLt(f.periodicity, Norm(2, 10))
      [] k = 6 -> FLt(f.energy, Norm(15, 100)) /\ FLt(f.zeroCrossings, Norm(15, 100))

\* The bonus of the k-th archetype, as the table states it.
TableBonus ==
    <<Norm(5, 10), Norm(4, 10), Norm(3, 10), Norm(6, 10), Norm(3, 10), Norm(4, 10)>>

\* x >= 0 rounded to two decimals, halves upwards.
Round2(x) == Norm((200 * x[1] + x[2]) \div (2 * x[2]), 100)

\* The base scores of the model's random draws.
BaseScores == {FAdd(Norm(1, 10), FMul(r, Norm(2, 10))) : r \in Draws}

InRange(x, lo, hi) == FGe(x, lo) /\ FGe(hi, x)

\* The score the table gives the k-th archetype on features f with base b.
TableScore(k, f, b) ==
    IF TablePredicate(k, f) THEN Round2(MathMin(Num(1), FAdd(b, TableBonus[k])))
    ELSE Round2(b)

FirstMax(k) ==
    /\ \A j \in DOMAIN scores : FGe(scores[k][2], scores[j][2])
    /\ \A j \in 1..(k - 1) : FGt(scores[k][2], scores[j][2])

\* C12: the selected label is the archetype of the maximum score, the
\* earliest one in enumeration order when several share the maximum.
C12_FirstMaxWins ==
    pc \in {"cls_report", "cls_done"} =>
        \E k \in DOMAIN scores :
            /\ FirstMax(k)
            /\ scores[k][1] = ArchetypeOrder[k]
            /\ detectedType = scores[k][1]
            /\ highestScore = scores[k][2]

\* C12 witness: two archetypes share the maximum and the earlier one is
\* the selected one.
C12_Witness ==
    /\ pc = "cls_done"
    /\ \E k \in DOMAIN scores : \E j \in DOMAIN scores :
         /\ k < j /\ FirstMax(k) /\ scores[j][2] = scores[k][2]
         /\ classified = scores[k][1]

\* C13: the label a classification selects and passes to onClassified is
\* one of the six archetype names (never the empty string), for every
\* signal and every random draw.
C13_AlwaysALabel ==
    /\ pc = "cls_report" => detectedType \in ArchetypeNames
    /\ pc = "cls_done" => classified \in ArchetypeNames

\* C13 witness: a signal without any sample has been classified, and one
\* on which no archetype gets a bonus.
C13_Witness ==
    /\ pc = "cls_done"
    /\ classified \in ArchetypeNames
    /\ \/ ALen(originalBuffer.data[0]) = 0
       \/ \A k \in 1..6 : ~TablePredicate(k, features)

\* The features of the Fan/HVAC scenario.
FanScenario(f) ==
    /\ FGt(f.periodicity, Norm(6, 10))
    /\ FLt(f.energy, Norm(1, 10))
    /\ FLt(f.zeroCrossings, Norm(2, 10))

\* C14: on features with periodicity > 0.6, energy < 0.1 and zeroCrossings
\* < 0.2 the classifier selects Fan/HVAC, whatever the six base scores, and
\* its score is min(1, base + 0.6) rounded to two decimals.
C14_FanScenarioSelected ==
    (pc \in {"cls_report", "cls_done"} /\ FanScenario(features)) =>
        /\ detectedType = ArchetypeOrder[4]
        /\ highestScore = scores[4][2]
        /\ \E b \in BaseScores :
             scores[4][2] = Round2(MathMin(Num(1), FAdd(b, Norm(6, 10))))

\* C14 witness: in the scenario Wind reaches the score of Fan/HVAC (0.7) and
\* Fan/HVAC is reported.
C14_Witness ==
    /\ pc = "cls_done" /\ FanScenario(features)
    /\ scores[6][2] = scores[4][2]
    /\ classified = ArchetypeOrder[4]

\* C15: on features with periodicity > 0.6, energy < 0.1 and zeroCrossings
\* < 0.2 the condition of Fan/HVAC is the only one of the six that the
\* classifier finds satisfied.
C15_FanOnlyMatch ==
    (pc \in {"cls_predict", "cls_report", "cls_done"} /\ FanScenario(features)) =>
        \A k \in 1..6 : (Bonus(NOISE_TYPES[k], features) # Zero) <=> (k = 4)

\* C16: for a signal of zero samples, and whenever no archetype's predicate
\* is satisfied, a label is selected, it is the arg-max of the base scores,
\* and every score of the map lies in [0.1, 0.3] (no bonus is added).
C16_BaseScoresOnly ==
    (/\ pc = "cls_done"
     /\ \/ ALen(originalBuffer.data[0]) = 0
        \/ \A k \in 1..6 : ~TablePredicate(k, features)) =>
        /\ classified \in ArchetypeNames
        /\ \E k \in DOMAIN scores : FirstMax(k) /\ classified = scores[k][1]
        /\ \A k \in DOMAIN scores : InRange(scores[k][2], Norm(1, 10), Norm(3, 10))


\* -------------------------------------------- claims on the post-processor

\* The mean of the seven samples k-3..k+3 of t.
Mean7(t, k) ==
    FDiv(FAdd(FAdd(FAdd(FAdd(FAdd(FAdd(t[k - 3], t[k - 2]), t[k - 1]), t[k]), t[k + 1]),
                   t[k + 2]), t[k + 3]),
         Num(7))

\* C19: while and after the smoothing loop runs, sample k holds the mean of
\* the 7 samples k-3..k+3 of the signal as it was handed in exactly for the
\* indices 3 <= k <= length-4 the loop has passed; every other sample, so the
\* first three and the last three, is as it was, and a signal of at most 6
\* samples is unchanged.
C19_SmoothingFrame ==
    pc \in {"post_average", "post_scale"} =>
        /\ \A k \in DOMAIN signal :
             signal[k] = IF 3 <= k /\ k <= ALen(signal) - 4 /\ k < i
                         THEN F32(Mean7(temp, k)) ELSE temp[k]
        /\ (pc = "post_scale" => i >= ALen(signal) - 3)
        /\ (ALen(signal) <= 6 => signal = temp)

\* C19 witness: a signal of 8 samples has been smoothed, samples 3 and 4
\* have changed, the three at either end have not.
C19_Witness ==
    /\ pc = "post_scale" /\ ALen(signal) = 8
    /\ signal[3] # temp[3] /\ signal[4] # temp[4] /\ signal[3] # signal[4]
    /\ \A k \in {0, 1, 2, 5, 6, 7} : signal[k] = temp[k] /\ temp[k] # Zero

\* C28: the moving average reads only the snapshot taken before the
\* smoothing: the snapshot is the signal as handed in and is never written,
\* and each iteration gives its index i, 3 <= i <= length-4, the mean of the
\* seven snapshot samples i-3..i+3 and writes nothing else.
C28_ReadsSnapshot ==
    [][/\ PostCopy => temp' = signal /\ signal' = signal
       /\ PostAverage =>
            /\ 3 <= i /\ i <= ALen(signal) - 4
            /\ temp' = temp
            /\ signal'[i] = F32(Mean7(temp, i))
            /\ \A k \in DOMAIN signal : k # i => signal'[k] = signal[k]
            /\ \A k \in DOMAIN signal : k >= i => signal[k] = temp[k]
      ]_vars

\* C28 witness: index 4 has been smoothed after index 3 was overwritten with
\* a different value, and its mean differs from the one the overwritten
\* sample would have given.
C28_Witness ==
    /\ pc = "post_average" /\ i = 5 /\ ALen(signal) >= 8
    /\ signal[3] # temp[3]
    /\ signal[4] = F32(Mean7(temp, 4))
    /\ signal[4] # F32(Mean7([signal EXCEPT ![4] = temp[4]], 4))

\* The largest absolute value of the samples of sig (0 for no sample); NaN
\* when a sample is NaN.
PeakOf(sig) ==
    LET mags == {MathAbs(sig[k]) : k \in DOMAIN sig} \cup {Zero}
    IN  IF NaN \in mags THEN NaN
        ELSE CHOOSE m \in mags : \A x \in mags : FGe(m, x)

\* C20: the normalization step takes the peak over the whole smoothed signal;
\* a peak above 0.9 has every sample multiplied by 0.9/peak, so that the new
\* peak is exactly 0.9, zeros stay zeros and no sample changes its sign; a
\* peak of at most 0.9 leaves every sample as it is.
C20_Normalization ==
    [][PostScale =>
        LET peak == PeakOf(signal)
        IN  /\ maxAmplitude = peak
            /\ FGt(peak, Norm(9, 10)) =>
                 /\ \A k \in DOMAIN signal :
                      /\ signal'[k] = F32(FMul(signal[k], FDiv(Norm(9, 10), peak)))
                      /\ signal[k] = Zero => signal'[k] = Zero
                      /\ Sgn(signal'[k][1]) \in {0, Sgn(signal[k][1])}
                 /\ PeakOf(signal') = Norm(9, 10)
            /\ FGe(Norm(9, 10), peak) => signal' = signal
      ]_vars


\* ------------------------------------------------ claims on input checking

\* The buffers the claim has rejected: no channel, a sample rate <= 0, or a
\* channel whose length is not the buffer's.
InvalidInput(b) ==
    \/ b.numberOfChannels = 0
    \/ b.sampleRate <= 0
    \/ \E c \in DOMAIN b.data : ALen(b.data[c]) # b.length

\* C17: process produces no output buffer for an input with zero channels, a
\* sample rate <= 0 or channels of mismatched length (it rejects), and
\* returns a buffer for every other input.
C17_RejectsInvalidInput ==
    /\ InvalidInput(originalBuffer) => (pc # "proc_returned" /\ result = None)
    /\ (pc = "proc_returned" /\ ~InvalidInput(originalBuffer)) => result # None


\* ------------------------------------------------------- claims on the page

StaleLabelProcessed ==
    /\ Len(inFlight) = 1
    /\ inFlight[1].originalBuffer = Decoded(2)
    /\ classifiedFrom = Decoded(1)


\* ------------------------------------------------ claims on the filter, II

MachineStep(st, x, mu) ==
    LET L == ALen(st.weights)
        delayLine == [k \in 0..(L - 1) |-> IF k = 0 THEN x ELSE st.buffer[k - 1]]
        yy == Dot(st.weights, delayLine, 0, L - 1)
        e == FAdd(x, st.prevOutput)
    IN  [weights    |-> [k \in 0..(L - 1) |->
                            F32(FSub(st.weights[k], FMul(FMul(mu, e), delayLine[k])))],
         buffer     |-> delayLine,
         prevOutput |-> yy,
         y          |-> yy,
         error      |-> e]

\* The filter state and the values of the last iteration, as one record.
LmsState ==
    [weights |-> weights, buffer |-> buffer, prevOutput |-> prevOutput,
     y |-> y, error |-> error]

\* C22: every iteration of the sample loop, which skips the taps with
\* n - k < 0, leaves the delay line, weights, y, prevOutput and e that the
\* all-taps state machine leaves from the same state on the same sample;
\* after the shift delayLine[k] = x[n-k] for k <= n and 0 for k > n.
C22_AllTapsEquivalence ==
    [][LmsStep =>
        /\ LmsState' = MachineStep([weights |-> weights, buffer |-> buffer,
                                    prevOutput |-> prevOutput],
                                   inputSignal[n], stepSize)
        /\ \A k \in 0..(filterLength - 1) :
             buffer'[k] = IF k <= n THEN inputSignal[n - k] ELSE Zero
      ]_vars

\* The same, for the iterations whose error is finite.
AllTapsOnFiniteError ==
    [][(LmsStep /\ IsFinite(error')) =>
        LmsState' = MachineStep([weights |-> weights, buffer |-> buffer,
                                 prevOutput |-> prevOutput],
                                inputSignal[n], stepSize)
      ]_vars

\* Reached: the error is not finite while a tap with n - k < 0 exists.
OverflowBeforeFull ==
    /\ pc = "lms_loop" /\ n > 0 /\ n < filterLength
    /\ ~IsFinite(error)


\* C24: the label in noiseType belongs to the buffer in originalAudio: it
\* was reported by the classification of that buffer, and a run that has
\* been superseded by a new audio never calls onClassified.
C24_LabelOfCurrentBuffer ==
    [][/\ noiseTypeState' # None => classifiedFrom' = originalAudio'
       /\ \A r \in DOMAIN runs :
            (runs[r].at = "inference" /\ runs'[r].at = "complete") => runs[r].isMounted
      ]_vars

\* C25: processedAudio, when it is not null, is the result of processing
\* the buffer in originalAudio.
C25_ProcessedOfCurrentBuffer ==
    processedAudio # None => processedAudio.originalBuffer = originalAudio

\* Reached: the result of the first audio is shown next to the second.
StaleResultShown ==
    /\ processedAudio # None
    /\ originalAudio = Decoded(2)
    /\ processedAudio.originalBuffer = Decoded(1)

\* C26: the stage of the classifier is "complete" only when the run for
\* the current audioBuffer has called onClassified, and the stage only
\* advances loading -> analyzing -> complete, starting again at "loading"
\* with a new audioBuffer.
C26_StageOrder ==
    [][/\ stage' = "complete" =>
            \E r \in DOMAIN runs' :
                runs'[r].audioBuffer = originalAudio' /\ runs'[r].at = "complete"
       /\ stage' # stage =>
            \/ stage' = "loading" /\ loads' = loads + 1
            \/ stage = "loading" /\ stage' = "analyzing"
            \/ stage = "analyzing" /\ stage' = "complete"
      ]_vars

RawScore(type, f, r) == FAdd(FAdd(Norm(1, 10), FMul(r, Norm(2, 10))), Bonus(type, f))

\* C29: every score of the classifier lies in [0.10, 0.90] when it is added
\* to the map, so it is strictly positive, and the clamp to 1.0 changes no
\* score: the base is in [0.1, 0.3) and the largest bonus is 0.6.
C29_ScoreBounds ==
    /\ (pc = "cls_predict" /\ typeIndex > 1) =>
         \A s \in {scores[typeIndex - 1][2]} :
            /\ FGe(s, Norm(1, 10)) /\ FGe(Norm(9, 10), s)
            /\ FGt(s, Zero)
    /\ (pc = "cls_predict" /\ typeIndex = 1) =>
         \A t \in DOMAIN NOISE_TYPES, r \in Draws :
            \A raw \in {RawScore(NOISE_TYPES[t], features, r)} :
               /\ FGe(raw, Norm(1, 10)) /\ FLt(raw, Norm(9, 10))
               /\ MathMin(Num(1), raw) = raw
               /\ TypeScore(NOISE_TYPES[t], features, r) = ToFixed2(raw)

\* C29 witness: a classification is complete whose map holds the smallest
\* score, 0.10, and the largest, 0.90.
C29_Witness ==
    /\ pc = "cls_done"
    /\ \E k \in DOMAIN scores : scores[k][2] = Norm(1, 10)
    /\ \E k \in DOMAIN scores : scores[k][2] = Norm(9, 10)

\* The other buffers of the classifier's inputs with the channel 0 of b.
SameChannelZero(b) == {b2 \in ClsBuffers : b2.data[0] = b.data[0] /\ b2 # b}

\* The draws that give the spectralFlatness of the feature record f.
DrawsOf(f) == {r \in Draws : FAdd(FMul(r, Norm(1, 2)), Norm(2, 10)) = f.spectralFlatness}

\* C30: the classification reads only channel 0: a buffer with the same
\* channel 0 and other content in its other channels gives, with the same
\* random draw, the same energy, zeroCrossings and periodicity (and the
\* other features), and the scores and the selected label are computed from
\* the features and the draws alone.
C30_OnlyChannelZero ==
    /\ (pc = "cls_predict" /\ typeIndex = 1) =>
         /\ SameChannelZero(originalBuffer) # {}
         /\ DrawsOf(features) # {}
         /\ \A b2 \in SameChannelZero(originalBuffer), r \in DrawsOf(features) :
              features = extractFeatures(b2, r)
    /\ (pc = "cls_predict" /\ typeIndex > 1) =>
         \E r \in Draws :
            scores[typeIndex - 1][2] = TypeScore(NOISE_TYPES[typeIndex - 1], features, r)
    /\ pc = "cls_report" =>
         detectedType =
            SelectHighest(scores, 1,
                          [highestScore |-> Zero, detectedType |-> <<>>]).detectedType

\* C30 witness: a buffer whose channel 1 differs from its channel 0 has been
\* classified as Fan/HVAC with the score 0.90.
C30_Witness ==
    /\ pc = "cls_done"
    /\ originalBuffer.numberOfChannels = 2
    /\ originalBuffer.data[1] # originalBuffer.data[0]
    /\ classified = NOISE_TYPES[4]
    /\ highestScore = Norm(9, 10)

\* ---------------------------------------------------- claims on the players

\* The sources that have been started and have neither been stopped nor
\* played to their end.
Playing == {k \in DOMAIN sources : sources[k].status = "playing"}

\* C23: after any interleaving of play clicks, stop clicks and onended
\* callbacks at most one source is playing, a playing source is the one its
\* type's ref holds, and isPlaying[type] is true exactly when the ref of the
\* type holds the playing source.
C23_PlaybackConsistency ==
    /\ Cardinality(Playing) <= 1
    /\ \A k \in Playing : RefOf(sources[k].type) = <<k>>
    /\ \A type \in PlayTypes :
         isPlaying[type] <=> (RefOf(type) # None /\ RefOf(type)[1] \in Playing)

\* Reached: two sources are playing at once.
TwoSourcesPlaying == Cardinality(Playing) >= 2

====
